---- MODULE Spec2Model ----
(***************************************************************************)
(* A model of the occ compiler: the recursive-descent parser of parse.c    *)
(* (token cursor, per-function locals list, AST construction, stack-layout *)
(* pass) and the stack-machine code generator of codegen.c, with the       *)
(* emitted instructions executed on a small x86-64 register/stack machine. *)
(***************************************************************************)
EXTENDS Integers, Sequences, FiniteSets, TLC

VARIABLES
    \* ---- codegen.c: the node handed to codegen() and the machine that
    \*      runs what gen() printed
    node,        \* the AST handed to codegen()
    code,        \* the instructions printed so far, in order
    pc,          \* index of the next instruction to execute
    stack,       \* the machine stack (operand stack), top = last element
    rax, rdi, rdx,
    rbp,         \* frame base of the running function
    flags,       \* result of the last cmp: [lt, eq]
    mem,         \* memory cells of the local variables, by address
    entryStack,  \* the stack as it was when the emitted code was entered
    phase,       \* position of the run
    \* ---- parse.c: static globals and the call being made
    tokens,        \* the token list handed to the parser
    current_token, \* static Token *current_token (an index into tokens)
    locals,        \* static Var *locals (a heap index, 0 = NULL)
    heap,          \* the Var objects allocated by new_lvar
    err,           \* the fatal error raised, if any
    ret,           \* what the called function returned
    lhs, rhs       \* operands handed to new_add_node / new_sub_node

vars == <<node, code, pc, stack, rax, rdi, rdx, rbp, flags, mem, entryStack, phase,
          tokens, current_token, locals, heap, err, ret, lhs, rhs>>

genVars == <<node, code, pc, stack, rax, rdi, rdx, rbp, flags, mem, entryStack>>
parseVars == <<tokens, current_token, locals, heap, err, ret, lhs, rhs>>

(***************************************************************************)
(* Bounds of the model.                                                    *)
(***************************************************************************)
MaxEntryDepth == 2      \* values already on the stack when the code starts

(***************************************************************************)
(* AST nodes of codegen.c (chibicc.h snapshot: ND_NUM, ND_LVAR, ND_ASSIGN  *)
(* and the binary kinds).                                                  *)
(***************************************************************************)
NullNode == [kind |-> "NULL"]

NumNode(v) == [kind |-> "ND_NUM", val |-> v]
LvarNode(off) == [kind |-> "ND_LVAR", offset |-> off]
BinNode(k, l, r) == [kind |-> k, lhs |-> l, rhs |-> r]

BinaryKinds == {"ND_ADD", "ND_SUB", "ND_MUL", "ND_DIV", "ND_EQ", "ND_NE",
                "ND_LAT", "ND_LET", "ND_LAE", "ND_LEE"}

Ins(op) == [op |-> op, v |-> 0]
InsV(op, v) == [op |-> op, v |-> v]

\* gen_lvar: error("expected a variable") unless the node is a variable,
\* otherwise the three lines that push the variable's address.
gen_lvar(n) ==
    IF n.kind # "ND_LVAR"
    THEN [ok |-> FALSE, code |-> <<>>]
    ELSE [ok |-> TRUE,
          code |-> <<Ins("mov rax, rbp"), InsV("sub rax,", n.offset), Ins("push rax")>>]

\* The tail of case ND_LVAR: replace the address by the value stored there.
LvarTail == <<Ins("pop rax"), Ins("mov rax, [rax]"), Ins("push rax")>>

\* A plausible slip: the final push of the assigned value is forgotten.
AssignTailNoPush == <<Ins("pop rdi"), Ins("pop rax"), Ins("mov [rax], rdi")>>

\* The tail of case ND_ASSIGN: store and re-push the value.
AssignTail == <<Ins("pop rdi"), Ins("pop rax"), Ins("mov [rax], rdi"), Ins("push rdi")>>

\* A plausible slip: ND_LAT compares in the same order as ND_LET.
BinOpCodeUnmirrored(k) ==
    CASE k = "ND_ADD" -> <<Ins("add rax, rdi")>>
      [] k = "ND_SUB" -> <<Ins("sub rax, rdi")>>
      [] k = "ND_MUL" -> <<Ins("imul rax, rdi")>>
      [] k = "ND_DIV" -> <<Ins("cqo"), Ins("idiv rdi")>>
      [] k = "ND_EQ"  -> <<Ins("cmp rax, rdi"), Ins("sete al"), Ins("movzb rax, al")>>
      [] k = "ND_NE"  -> <<Ins("cmp rax, rdi"), Ins("setne al"), Ins("movzb rax, al")>>
      [] k = "ND_LAT" -> <<Ins("cmp rax, rdi"), Ins("setl al"), Ins("movzb rax, al")>>
      [] k = "ND_LET" -> <<Ins("cmp rax, rdi"), Ins("setl al"), Ins("movzb rax, al")>>
      [] k = "ND_LAE" -> <<Ins("cmp rdi, rax"), Ins("setle al"), Ins("movzb rax, al")>>
      [] k = "ND_LEE" -> <<Ins("cmp rax, rdi"), Ins("setle al"), Ins("movzb rax, al")>>
      [] OTHER -> <<>>

\* The second switch of gen(): the opcode(s) of each binary kind.  A kind
\* the switch does not list prints nothing.
BinOpCode(k) ==
    CASE k = "ND_ADD" -> <<Ins("add rax, rdi")>>
      [] k = "ND_SUB" -> <<Ins("sub rax, rdi")>>
      [] k = "ND_MUL" -> <<Ins("imul rax, rdi")>>
      [] k = "ND_DIV" -> <<Ins("cqo"), Ins("idiv rdi")>>
      [] k = "ND_EQ"  -> <<Ins("cmp rax, rdi"), Ins("sete al"), Ins("movzb rax, al")>>
      [] k = "ND_NE"  -> <<Ins("cmp rax, rdi"), Ins("setne al"), Ins("movzb rax, al")>>
      [] k = "ND_LAT" -> <<Ins("cmp rdi, rax"), Ins("setl al"), Ins("movzb rax, al")>>
      [] k = "ND_LET" -> <<Ins("cmp rax, rdi"), Ins("setl al"), Ins("movzb rax, al")>>
      [] k = "ND_LAE" -> <<Ins("cmp rdi, rax"), Ins("setle al"), Ins("movzb rax, al")>>
      [] k = "ND_LEE" -> <<Ins("cmp rax, rdi"), Ins("setle al"), Ins("movzb rax, al")>>
      [] OTHER -> <<>>

\* gen(): what is printed for a node; ok = FALSE when error() ended the
\* process, code then being what had been printed before it.
RECURSIVE gen(_)
gen(n) ==
    CASE n.kind = "ND_NUM" -> [ok |-> TRUE, code |-> <<InsV("push", n.val)>>]
      [] n.kind = "ND_LVAR" ->
            LET a == gen_lvar(n) IN [ok |-> a.ok, code |-> a.code \o LvarTail]
      [] n.kind = "ND_ASSIGN" ->
            LET a == gen_lvar(n.lhs) IN
            IF ~a.ok THEN a
            ELSE LET r == gen(n.rhs) IN
                 IF ~r.ok THEN [ok |-> FALSE, code |-> a.code \o r.code]
                 ELSE [ok |-> TRUE, code |-> a.code \o r.code \o AssignTail]
      [] OTHER ->
            LET l == gen(n.lhs) IN
            IF ~l.ok THEN l
            ELSE LET r == gen(n.rhs) IN
                 IF ~r.ok THEN [ok |-> FALSE, code |-> l.code \o r.code]
                 ELSE [ok |-> TRUE,
                       code |-> l.code \o r.code
                                \o <<Ins("pop rdi"), Ins("pop rax")>>
                                \o BinOpCode(n.kind)
                                \o <<Ins("push rax")>>]

(***************************************************************************)
(* The machine that runs the printed instructions (x86-64, Intel syntax).  *)
(***************************************************************************)
Abs(a) == IF a < 0 THEN -a ELSE a

\* idiv: signed division truncating toward zero, remainder with the sign
\* of the dividend.
TruncDiv(a, b) == IF (a < 0) = (b < 0) THEN Abs(a) \div Abs(b) ELSE -(Abs(a) \div Abs(b))
TruncRem(a, b) == a - b * TruncDiv(a, b)

\* setcc writes the low byte of rax only.
SetAl(r, bit) == r - (r % 256) + bit

Cur == code[pc]
Running == phase = "run" /\ pc <= Len(code)

\* codegen(node): gen() prints the code for the node, or error() ends the
\* process part-way.
Codegen ==
    /\ phase = "start"
    /\ LET g == gen(node) IN
        /\ code' = g.code
        /\ phase' = IF g.ok THEN "run" ELSE "aborted"
    /\ UNCHANGED <<node, pc, stack, rax, rdi, rdx, rbp, flags, mem, entryStack>>
    /\ UNCHANGED parseVars

ExecPush ==
    /\ Running
    /\ Cur.op \in {"push", "push rax", "push rdi"}
    /\ stack' = Append(stack, CASE Cur.op = "push" -> Cur.v
                                [] Cur.op = "push rax" -> rax
                                [] Cur.op = "push rdi" -> rdi)
    /\ pc' = pc + 1
    /\ UNCHANGED <<node, code, rax, rdi, rdx, rbp, flags, mem, entryStack, phase>>
    /\ UNCHANGED parseVars

ExecPop ==
    /\ Running
    /\ Cur.op \in {"pop rax", "pop rdi"}
    /\ IF Len(stack) = 0
       THEN /\ phase' = "underflow"
            /\ UNCHANGED <<stack, pc, rax, rdi>>
       ELSE /\ stack' = SubSeq(stack, 1, Len(stack) - 1)
            /\ rax' = IF Cur.op = "pop rax" THEN stack[Len(stack)] ELSE rax
            /\ rdi' = IF Cur.op = "pop rdi" THEN stack[Len(stack)] ELSE rdi
            /\ pc' = pc + 1
            /\ UNCHANGED phase
    /\ UNCHANGED <<node, code, rdx, rbp, flags, mem, entryStack>>
    /\ UNCHANGED parseVars

ExecMov ==
    /\ Running
    /\ Cur.op \in {"mov rax, rbp", "mov rax, [rax]", "mov [rax], rdi", "movzb rax, al"}
    /\ IF Cur.op \in {"mov rax, [rax]", "mov [rax], rdi"} /\ rax \notin DOMAIN mem
       THEN /\ phase' = "segv"
            /\ UNCHANGED <<pc, rax, mem>>
       ELSE /\ rax' = CASE Cur.op = "mov rax, rbp" -> rbp
                        [] Cur.op = "mov rax, [rax]" -> mem[rax]
                        [] Cur.op = "movzb rax, al" -> rax % 256
                        [] OTHER -> rax
            /\ mem' = IF Cur.op = "mov [rax], rdi" THEN [mem EXCEPT ![rax] = rdi] ELSE mem
            /\ pc' = pc + 1
            /\ UNCHANGED phase
    /\ UNCHANGED <<node, code, stack, rdi, rdx, rbp, flags, entryStack>>
    /\ UNCHANGED parseVars

ExecArith ==
    /\ Running
    /\ Cur.op \in {"sub rax,", "add rax, rdi", "sub rax, rdi", "imul rax, rdi",
                   "cqo", "idiv rdi"}
    /\ IF Cur.op = "idiv rdi" /\ rdi = 0
       THEN /\ phase' = "divide error"
            /\ UNCHANGED <<pc, rax, rdx>>
       ELSE /\ rax' = CASE Cur.op = "sub rax," -> rax - Cur.v
                        [] Cur.op = "add rax, rdi" -> rax + rdi
                        [] Cur.op = "sub rax, rdi" -> rax - rdi
                        [] Cur.op = "imul rax, rdi" -> rax * rdi
                        [] Cur.op = "idiv rdi" -> TruncDiv(rax, rdi)
                        [] OTHER -> rax
            /\ rdx' = CASE Cur.op = "cqo" -> (IF rax < 0 THEN -1 ELSE 0)
                        [] Cur.op = "idiv rdi" -> TruncRem(rax, rdi)
                        [] OTHER -> rdx
            /\ pc' = pc + 1
            /\ UNCHANGED phase
    /\ UNCHANGED <<node, code, stack, rdi, rbp, flags, mem, entryStack>>
    /\ UNCHANGED parseVars

ExecCmp ==
    /\ Running
    /\ Cur.op \in {"cmp rax, rdi", "cmp rdi, rax"}
    /\ LET a == IF Cur.op = "cmp rax, rdi" THEN rax ELSE rdi
           b == IF Cur.op = "cmp rax, rdi" THEN rdi ELSE rax
       IN flags' = [lt |-> a < b, eq |-> a = b]
    /\ pc' = pc + 1
    /\ UNCHANGED <<node, code, stack, rax, rdi, rdx, rbp, mem, entryStack, phase>>
    /\ UNCHANGED parseVars

ExecSet ==
    /\ Running
    /\ Cur.op \in {"sete al", "setne al", "setl al", "setle al"}
    /\ LET c == CASE Cur.op = "sete al" -> flags.eq
                  [] Cur.op = "setne al" -> ~flags.eq
                  [] Cur.op = "setl al" -> flags.lt
                  [] Cur.op = "setle al" -> flags.lt \/ flags.eq
       IN rax' = SetAl(rax, IF c THEN 1 ELSE 0)
    /\ pc' = pc + 1
    /\ UNCHANGED <<node, code, stack, rdi, rdx, rbp, flags, mem, entryStack, phase>>
    /\ UNCHANGED parseVars

\* The last printed instruction has run.
Finish ==
    /\ phase = "run"
    /\ pc > Len(code)
    /\ phase' = "done"
    /\ UNCHANGED genVars
    /\ UNCHANGED parseVars

(***************************************************************************)
(* The nodes handed to codegen(): literals, variables, assignments and     *)
(* binary nodes, nested two levels deep on either side.                    *)
(***************************************************************************)
GenNums == {-7, 0, 2}
GenOffsets == {8, 16}
GenLeaves == {NumNode(v) : v \in GenNums} \cup {LvarNode(o) : o \in GenOffsets}

GenLevel1 ==
    GenLeaves
    \cup {BinNode(k, l, r) : k \in BinaryKinds, l \in GenLeaves, r \in GenLeaves}
    \cup {BinNode("ND_ASSIGN", l, r) : l \in GenLeaves, r \in GenLeaves}

GenNodes ==
    GenLevel1
    \cup {BinNode(k, l, r) : k \in BinaryKinds, l \in GenLevel1, r \in GenLeaves}
    \cup {BinNode(k, l, r) : k \in BinaryKinds, l \in GenLeaves, r \in GenLevel1}
    \cup {BinNode("ND_ASSIGN", l, r) : l \in {LvarNode(o) : o \in GenOffsets}, r \in GenLevel1}

\* What the caller left on the stack before the code starts.
EntryStacks == {[i \in 1..d |-> 100 + i] : d \in 0..MaxEntryDepth}

\* The frame of the running function: two 8-byte locals below rbp.
InitMem(base) == (base - 8 :> 5) @@ (base - 16 :> -3)

IdleParse ==
    /\ tokens = <<>>
    /\ current_token = 1
    /\ locals = 0
    /\ heap = <<>>
    /\ err = [kind |-> "none"]
    /\ ret = NullNode
    /\ lhs = NullNode
    /\ rhs = NullNode

InitGen ==
    /\ node \in GenNodes
    /\ entryStack \in EntryStacks
    /\ stack = entryStack
    /\ code = <<>>
    /\ pc = 1
    /\ rax = 0 /\ rdi = 0 /\ rdx = 0
    /\ rbp = 64
    /\ flags = [lt |-> FALSE, eq |-> FALSE]
    /\ mem = InitMem(rbp)
    /\ phase = "start"
    /\ IdleParse

NextGen ==
    \/ Codegen
    \/ ExecPush
    \/ ExecPop
    \/ ExecMov
    \/ ExecArith
    \/ ExecCmp
    \/ ExecSet
    \/ Finish

SpecGen == InitGen /\ [][NextGen]_vars

(***************************************************************************)
(* parse.c.  The parser's static globals (current_token, locals) and the   *)
(* Var objects it allocates are threaded through the parsing operators as  *)
(* a record st = [pos, locals, heap, err]; every operator returns the node *)
(* it built together with the state it left.  A fatal error ends the       *)
(* process: once st.err is set nothing further is done.                    *)
(***************************************************************************)
NoErr == [kind |-> "none"]
Failed(st) == st.err.kind # "none"
R(n, st) == [n |-> n, st |-> st]

\* Tokens as the tokenizer hands them over: kind, text and (numbers) value.
Rsv(s) == [kind |-> "TK_RESERVED", str |-> s, val |-> 0]
Id(s) == [kind |-> "TK_IDENT", str |-> s, val |-> 0]
Nm(v) == [kind |-> "TK_NUM", str |-> ToString(v), val |-> v]
Eof == [kind |-> "TK_EOF", str |-> "", val |-> 0]

cur(toks, st) == toks[st.pos]
advance(st) == [st EXCEPT !.pos = @ + 1]

\* Error reporting: takes a position and a message and never returns.
error_at(st, loc, msg) == [st EXCEPT !.err = [kind |-> "fatal", loc |-> loc, msg |-> msg]]
error(st, loc, msg) == [st EXCEPT !.err = [kind |-> "fatal", loc |-> loc, msg |-> msg]]

\* The type model: int, pointer-to and array-of, with their sizes.
NoType == [kind |-> "NONE"]
type_int_size == 8
pointer_size == 8
type_int == [kind |-> "TY_INT", size |-> type_int_size, base |-> NoType]
pointer_to(base) == [kind |-> "TY_PTR", size |-> pointer_size, base |-> base]
array_of(base, len) ==
    [kind |-> "TY_ARRAY", size |-> base.size * len, base |-> base, array_len |-> len]
HasBase(ty) == ty.base # NoType

\* Nodes of parse.c; a field left NULL by calloc is NullNode.
new_binary_node(kind, l, r) == [kind |-> kind, lhs |-> l, rhs |-> r]
new_unary_node(kind, l) == [kind |-> kind, lhs |-> l]
new_num_node(v) == [kind |-> "ND_NUM", val |-> v]
new_var_node(v) == [kind |-> "ND_VAR", var |-> v]

\* add_type: the type attached to an expression node.
RECURSIVE TypeOf(_, _)
TypeOf(n, hp) ==
    CASE n.kind = "ND_VAR" -> hp[n.var].type
      [] n.kind = "ND_NUM" -> type_int
      [] n.kind \in {"ND_ADD", "ND_SUB"} ->
            LET l == TypeOf(n.lhs, hp)
                r == TypeOf(n.rhs, hp)
            IN IF HasBase(l) /\ HasBase(r) THEN type_int
               ELSE IF HasBase(l) THEN l
               ELSE IF HasBase(r) THEN r
               ELSE type_int
      [] n.kind = "ND_ASSIGN" -> TypeOf(n.lhs, hp)
      [] n.kind = "ND_ADDR" -> pointer_to(TypeOf(n.lhs, hp))
      [] n.kind = "ND_DEREF" ->
            LET l == TypeOf(n.lhs, hp) IN IF HasBase(l) THEN l.base ELSE type_int
      [] OTHER -> type_int

\* Find local variable by name: the first match from the head of locals,
\* 0 (NULL) when there is none.
RECURSIVE find_var_from(_, _, _)
find_var_from(hp, v, name) ==
    IF v = 0 THEN 0
    ELSE IF hp[v].name = name THEN v
    ELSE find_var_from(hp, hp[v].next, name)

find_var(st, tok) == find_var_from(st.heap, st.locals, tok.str)

\* A plausible slip: the new variable is not linked in front of the list.
new_lvar_unlinked(st, name, type) ==
    [st EXCEPT !.heap = Append(@, [name |-> name, next |-> 0, type |-> type, offset |-> 0]),
               !.locals = Len(st.heap) + 1]

\* new_lvar: a new Var, linked in front of locals.
new_lvar(st, name, type) ==
    [st EXCEPT !.heap = Append(@, [name |-> name, next |-> st.locals, type |-> type,
                                   offset |-> 0]),
               !.locals = Len(st.heap) + 1]

equal(tok, op) == tok.str = op

\* consume: advance when the current token is op.
consume(toks, st, op) ==
    IF ~Failed(st) /\ equal(cur(toks, st), op)
    THEN [ok |-> TRUE, st |-> advance(st)]
    ELSE [ok |-> FALSE, st |-> st]

skip(toks, st, op) ==
    IF Failed(st) THEN st
    ELSE IF equal(cur(toks, st), op) THEN advance(st)
    ELSE error_at(st, st.pos, "Not '" \o op \o "'")

\* (n + align - 1) & ~(align - 1), align a power of two.
align_to(n, align) == ((n + align - 1) \div align) * align

\* typespec = "int"
typespec(toks, st) == [ty |-> type_int, st |-> skip(toks, st, "int")]

RECURSIVE declarator_stars(_, _, _)
declarator_stars(toks, st, ty) ==
    IF equal(cur(toks, st), "*")
    THEN declarator_stars(toks, advance(st), pointer_to(ty))
    ELSE [ty |-> ty, st |-> st]

\* declarator = "*"* ident ("[" num "]")?
declarator(toks, st, type) ==
    IF Failed(st) THEN R(NullNode, st)
    ELSE
    LET s == declarator_stars(toks, st, type)
        nameTok == cur(toks, s.st)
    IN  IF nameTok.kind # "TK_IDENT"
        THEN R(NullNode, error_at(s.st, s.st.pos, "expected a variable name"))
        ELSE
        LET s1 == advance(s.st)
            arr == IF equal(cur(toks, s1), "[")
                   THEN LET s2 == skip(toks, s1, "[") IN
                        IF cur(toks, s2).kind # "TK_NUM"
                        THEN [ty |-> s.ty, st |-> error_at(s2, s2.pos, "expected a number")]
                        ELSE [ty |-> array_of(s.ty, cur(toks, s2).val),
                              st |-> skip(toks, advance(s2), "]")]
                   ELSE [ty |-> s.ty, st |-> s1]
        IN  IF Failed(arr.st) THEN R(NullNode, arr.st)
            ELSE LET s3 == new_lvar(arr.st, nameTok.str, arr.ty)
                 IN R(new_var_node(s3.locals), s3)

\* A plausible slip: the check for two pointer/array operands is left out.
new_add_node_unchecked(st, l, r) ==
    IF Failed(st) THEN R(NullNode, st)
    ELSE
    LET lt == TypeOf(l, st.heap)
        rt == TypeOf(r, st.heap)
    IN  IF lt.kind = "TY_INT" /\ rt.kind = "TY_INT"
        THEN R(new_binary_node("ND_ADD", l, r), st)
        ELSE R(new_binary_node("ND_ADD", l,
                               new_binary_node("ND_MUL", r, new_num_node(8))), st)

\* new_add_node: num + num, the rejection of two operands that both have a
\* base type, and otherwise lhs + rhs * 8.
new_add_node(st, l, r) ==
    IF Failed(st) THEN R(NullNode, st)
    ELSE
    LET lt == TypeOf(l, st.heap)
        rt == TypeOf(r, st.heap)
    IN  IF lt.kind = "TY_INT" /\ rt.kind = "TY_INT"
        THEN R(new_binary_node("ND_ADD", l, r), st)
        ELSE IF HasBase(lt) /\ HasBase(rt)
        THEN R(NullNode, error(st, st.pos, "invalid operands"))
        ELSE R(new_binary_node("ND_ADD", l,
                               new_binary_node("ND_MUL", r, new_num_node(8))), st)

\* new_sub_node: num - num, ptr - num, ptr - ptr; anything else is fatal.
new_sub_node(st, l, r) ==
    IF Failed(st) THEN R(NullNode, st)
    ELSE
    LET lt == TypeOf(l, st.heap)
        rt == TypeOf(r, st.heap)
    IN  IF lt.kind = "TY_INT" /\ rt.kind = "TY_INT"
        THEN R(new_binary_node("ND_SUB", l, r), st)
        ELSE IF lt.kind = "TY_PTR" /\ rt.kind = "TY_INT"
        THEN R(new_binary_node("ND_SUB", l,
                               new_binary_node("ND_MUL", r, new_num_node(8))), st)
        ELSE IF lt.kind = "TY_PTR" /\ rt.kind = "TY_PTR"
        THEN R(new_binary_node("ND_DIV", new_binary_node("ND_SUB", l, r),
                               new_num_node(8)), st)
        ELSE R(NullNode, error_at(st, st.pos, "invalid operand of \"-\""))

\* Sequencing of two parsing steps: the continuation K runs on the node and
\* state the first step left, unless that step ended the process.
Then(r, K(_, _)) == IF Failed(r.st) THEN R(NullNode, r.st) ELSE K(r.n, r.st)

RECURSIVE expr(_, _), assign(_, _), equality(_, _), equality_loop(_, _, _),
          relational(_, _), relational_loop(_, _, _), add(_, _), add_loop(_, _, _),
          mul(_, _), mul_loop(_, _, _), unary(_, _), primary(_, _),
          func_args(_, _, _)

\* func_args: the comma-separated arguments up to ")".
func_args(toks, st, acc) ==
    IF Failed(st) \/ equal(cur(toks, st), ")") THEN R(acc, st)
    ELSE Then(expr(toks, IF acc # <<>> THEN skip(toks, st, ",") ELSE st),
              LAMBDA e, s: func_args(toks, s, Append(acc, e)))

\* primary = "(" expr ")" | ident args? | num
primary(toks, st) ==
    IF Failed(st) THEN R(NullNode, st)
    ELSE IF equal(cur(toks, st), "(")
    THEN Then(expr(toks, advance(st)), LAMBDA e, s: R(e, skip(toks, s, ")")))
    ELSE IF cur(toks, st).kind = "TK_IDENT"
    THEN IF equal(toks[st.pos + 1], "(")
         THEN Then(func_args(toks, skip(toks, advance(st), "("), <<>>),
                   LAMBDA a, s: R([kind |-> "ND_FUNCALL", funcname |-> cur(toks, st).str,
                                   args |-> a],
                                  skip(toks, s, ")")))
         ELSE IF find_var(st, cur(toks, st)) = 0
              THEN R(NullNode, error_at(st, st.pos, "undefined variable"))
              ELSE R(new_var_node(find_var(st, cur(toks, st))), advance(st))
    ELSE IF cur(toks, st).kind = "TK_NUM"
    THEN R(new_num_node(cur(toks, st).val), advance(st))
    ELSE R(NullNode, error_at(st, st.pos, "unexpected token"))

\* unary = ("+" | "-" | "*" | "&") unary | "sizeof" unary | primary
unary(toks, st) ==
    IF Failed(st) THEN R(NullNode, st)
    ELSE IF equal(cur(toks, st), "+") THEN unary(toks, advance(st))
    ELSE IF equal(cur(toks, st), "-")
    THEN Then(unary(toks, advance(st)),
              LAMBDA u, s: R(new_binary_node("ND_SUB", new_num_node(0), u), s))
    ELSE IF equal(cur(toks, st), "*")
    THEN Then(unary(toks, advance(st)), LAMBDA u, s: R(new_unary_node("ND_DEREF", u), s))
    ELSE IF equal(cur(toks, st), "&")
    THEN Then(unary(toks, advance(st)), LAMBDA u, s: R(new_unary_node("ND_ADDR", u), s))
    ELSE IF equal(cur(toks, st), "sizeof")
    THEN Then(unary(toks, advance(st)),
              LAMBDA u, s: R(new_num_node(TypeOf(u, s.heap).size), s))
    ELSE primary(toks, st)

\* mul = unary ("*" unary | "/" unary)*
mul_loop(toks, st, n) ==
    IF Failed(st) THEN R(NullNode, st)
    ELSE IF equal(cur(toks, st), "*")
    THEN Then(unary(toks, advance(st)),
              LAMBDA u, s: mul_loop(toks, s, new_binary_node("ND_MUL", n, u)))
    ELSE IF equal(cur(toks, st), "/")
    THEN Then(unary(toks, advance(st)),
              LAMBDA u, s: mul_loop(toks, s, new_binary_node("ND_DIV", n, u)))
    ELSE R(n, st)

mul(toks, st) == Then(unary(toks, st), LAMBDA u, s: mul_loop(toks, s, u))

\* add = mul ("+" mul | "-" mul)*
add_loop(toks, st, n) ==
    IF Failed(st) THEN R(NullNode, st)
    ELSE IF equal(cur(toks, st), "+")
    THEN Then(mul(toks, advance(st)),
              LAMBDA m, s: Then(new_add_node(s, n, m), LAMBDA a, t: add_loop(toks, t, a)))
    ELSE IF equal(cur(toks, st), "-")
    THEN Then(mul(toks, advance(st)),
              LAMBDA m, s: Then(new_sub_node(s, n, m), LAMBDA a, t: add_loop(toks, t, a)))
    ELSE R(n, st)

add(toks, st) == Then(mul(toks, st), LAMBDA m, s: add_loop(toks, s, m))

\* relational: add, then for each "<", ">", "<=", ">=" a node whose right
\* operand is what relational() returns.
relational_loop(toks, st, n) ==
    IF Failed(st) THEN R(NullNode, st)
    ELSE IF equal(cur(toks, st), "<")
    THEN Then(relational(toks, advance(st)),
              LAMBDA r, s: relational_loop(toks, s, new_binary_node("ND_LET", n, r)))
    ELSE IF equal(cur(toks, st), ">")
    THEN Then(relational(toks, advance(st)),
              LAMBDA r, s: relational_loop(toks, s, new_binary_node("ND_LAT", n, r)))
    ELSE IF equal(cur(toks, st), "<=")
    THEN Then(relational(toks, advance(st)),
              LAMBDA r, s: relational_loop(toks, s, new_binary_node("ND_LEE", n, r)))
    ELSE IF equal(cur(toks, st), ">=")
    THEN Then(relational(toks, advance(st)),
              LAMBDA r, s: relational_loop(toks, s, new_binary_node("ND_LAE", n, r)))
    ELSE R(n, st)

relational(toks, st) == Then(add(toks, st), LAMBDA a, s: relational_loop(toks, s, a))

\* equality = relational ("==" relational | "!=" relational)*
equality_loop(toks, st, n) ==
    IF Failed(st) THEN R(NullNode, st)
    ELSE IF equal(cur(toks, st), "==")
    THEN Then(relational(toks, advance(st)),
              LAMBDA r, s: equality_loop(toks, s, new_binary_node("ND_EQ", n, r)))
    ELSE IF equal(cur(toks, st), "!=")
    THEN Then(relational(toks, advance(st)),
              LAMBDA r, s: equality_loop(toks, s, new_binary_node("ND_NE", n, r)))
    ELSE R(n, st)

equality(toks, st) == Then(relational(toks, st), LAMBDA r, s: equality_loop(toks, s, r))

\* assign = equality ("=" assign)?
assign(toks, st) ==
    Then(equality(toks, st),
         LAMBDA e, s:
            IF equal(cur(toks, s), "=")
            THEN Then(assign(toks, advance(s)),
                      LAMBDA a, t: R(new_binary_node("ND_ASSIGN", e, a), t))
            ELSE R(e, s))

\* expr = assign
expr(toks, st) == assign(toks, st)

\* declaration = typespec declarator ("=" expr)? ";"
declaration(toks, st) ==
    Then(declarator(toks, typespec(toks, st).st, type_int),
         LAMBDA d, s:
            IF equal(cur(toks, s), "=")
            THEN Then(expr(toks, advance(s)),
                      LAMBDA e, t:
                         R(new_unary_node("ND_EXPR_STMT",
                                          new_binary_node("ND_ASSIGN", d, e)),
                           skip(toks, t, ";")))
            ELSE R(new_unary_node("ND_EXPR_STMT", d), skip(toks, s, ";")))

RECURSIVE stmt(_, _), compound_stmt(_, _, _)

\* compound_stmt = (declaration | stmt)*, up to "}"; the statements in order.
compound_stmt(toks, st, acc) ==
    IF Failed(st) \/ equal(cur(toks, st), "}") THEN R(acc, st)
    ELSE Then(IF equal(cur(toks, st), "int") THEN declaration(toks, st)
              ELSE stmt(toks, st),
              LAMBDA c, s: compound_stmt(toks, s, Append(acc, c)))

\* The "for" branch of stmt(), after the keyword: the init clause is parsed
\* by declaration(), the cond and inc clauses by expr().
stmt_for(toks, st) ==
    Then(IF Failed(st) THEN R(NullNode, st)
         ELSE IF ~equal(cur(toks, st), ";") THEN declaration(toks, st)
         ELSE R(NullNode, skip(toks, st, ";")),
         LAMBDA i, s1:
    Then(IF ~equal(cur(toks, s1), ";") THEN expr(toks, s1) ELSE R(NullNode, s1),
         LAMBDA c, s2:
    Then(IF Failed(skip(toks, s2, ";")) THEN R(NullNode, skip(toks, s2, ";"))
         ELSE IF ~equal(cur(toks, skip(toks, s2, ";")), ")")
         THEN Then(expr(toks, skip(toks, s2, ";")),
                   LAMBDA e, t: R(new_unary_node("ND_EXPR_STMT", e), t))
         ELSE R(NullNode, skip(toks, s2, ";")),
         LAMBDA n, s3:
    Then(stmt(toks, skip(toks, s3, ")")),
         LAMBDA b, s4:
            R([kind |-> "ND_FOR", init |-> i, cond |-> c, inc |-> n, then |-> b], s4)))))

\* stmt = "return" expr ";" | "if" ... | "for" ... | "while" ... | "{" ... "}"
\*      | expr ";"
stmt(toks, st) ==
    IF Failed(st) THEN R(NullNode, st)
    ELSE IF equal(cur(toks, st), "return")
    THEN Then(expr(toks, advance(st)),
              LAMBDA e, s: R(new_unary_node("ND_RETURN", e), skip(toks, s, ";")))
    ELSE IF equal(cur(toks, st), "if")
    THEN Then(expr(toks, skip(toks, advance(st), "(")),
              LAMBDA c, s:
         Then(stmt(toks, skip(toks, s, ")")),
              LAMBDA t, s2:
                 IF equal(cur(toks, s2), "else")
                 THEN Then(stmt(toks, advance(s2)),
                           LAMBDA e, s3:
                              R([kind |-> "ND_IF", cond |-> c, then |-> t, els |-> e], s3))
                 ELSE R([kind |-> "ND_IF", cond |-> c, then |-> t, els |-> NullNode], s2)))
    ELSE IF equal(cur(toks, st), "for")
    THEN stmt_for(toks, skip(toks, advance(st), "("))
    ELSE IF equal(cur(toks, st), "while")
    THEN Then(expr(toks, skip(toks, advance(st), "(")),
              LAMBDA c, s:
         Then(stmt(toks, skip(toks, s, ")")),
              LAMBDA t, s2: R([kind |-> "ND_WHILE", cond |-> c, then |-> t], s2)))
    ELSE IF equal(cur(toks, st), "{")
    THEN Then(compound_stmt(toks, advance(st), <<>>),
              LAMBDA b, s: R([kind |-> "ND_BLOCK", body |-> b], skip(toks, s, "}")))
    ELSE Then(expr(toks, st),
              LAMBDA e, s: R(new_unary_node("ND_EXPR_STMT", e), skip(toks, s, ";")))

\* func_params = typespec declarator ("," typespec declarator)*, up to ")"
RECURSIVE func_params(_, _, _)
func_params(toks, st, i) ==
    IF Failed(st) \/ equal(cur(toks, st), ")") THEN R(NullNode, st)
    ELSE Then(declarator(toks,
                         typespec(toks, IF i # 0 THEN skip(toks, st, ",") ELSE st).st,
                         type_int),
              LAMBDA d, s: func_params(toks, s, i + 1))

\* A plausible slip: the locals of the previous function are kept.
funcdef_enter_keep(st) == st

\* funcdef starts with locals = NULL.
funcdef_enter(st) == [st EXCEPT !.locals = 0]

\* funcdef, after the typespec: the name token is taken unchecked (stepping
\* past the end-of-stream token leaves current_token NULL and the next
\* access crashes), then the parameters and the body.
funcdef_rest(toks, st) ==
    IF Failed(st) THEN R(NullNode, st)
    ELSE IF cur(toks, st).kind = "TK_EOF"
    THEN R(NullNode, [st EXCEPT !.err = [kind |-> "segv", loc |-> st.pos + 1, msg |-> ""]])
    ELSE
    Then(func_params(toks, skip(toks, advance(st), "("), 0),
         LAMBDA x, s2:
    Then(compound_stmt(toks, skip(toks, skip(toks, s2, ")"), "{"), <<>>),
         LAMBDA b, s3:
            R([name |-> cur(toks, st).str, params |-> s2.locals,
               node |-> [kind |-> "ND_BLOCK", body |-> b],
               locals |-> s3.locals, stack_size |-> 0],
              skip(toks, s3, "}"))))

\* funcdef = typespec func_name "(" func_params ")" "{" compound_stmt "}"
funcdef(toks, st) == funcdef_rest(toks, typespec(toks, funcdef_enter(st)).st)

\* The inner loop of the layout pass: the running offset along a Var list.
RECURSIVE assign_offsets(_, _, _)
assign_offsets(hp, v, offset) ==
    IF v = 0 THEN [heap |-> hp, offset |-> offset]
    ELSE assign_offsets([hp EXCEPT ![v].offset = offset + hp[v].type.size], hp[v].next,
                        offset + hp[v].type.size)

\* One turn of the outer loop: the walk starts at the static variable
\* locals, whichever function fn is.
layout_fn(fn, st, a) ==
    R([fn EXCEPT !.stack_size = align_to(a.offset, 16)], [st EXCEPT !.heap = a.heap])

\* The outer loop of the layout pass over the functions parsed.
RECURSIVE layout(_, _, _)
layout(fns, i, st) ==
    IF i > Len(fns) THEN R(fns, st)
    ELSE Then(layout_fn(fns[i], st, assign_offsets(st.heap, st.locals, 32)),
              LAMBDA fn, s: layout([fns EXCEPT ![i] = fn], i + 1, s))

RECURSIVE program_loop(_, _, _)
program_loop(toks, st, fns) ==
    IF Failed(st) \/ cur(toks, st).kind = "TK_EOF" THEN R(fns, st)
    ELSE Then(funcdef(toks, st), LAMBDA f, s: program_loop(toks, s, Append(fns, f)))

\* program = funcdef*, then the layout pass.
program(toks, st) ==
    Then(program_loop(toks, st, <<>>), LAMBDA fns, s: layout(fns, 1, s))

\* parse: set the cursor, parse the program, reject a trailing token.
parse(toks, st) ==
    Then(program(toks, [st EXCEPT !.pos = 1]),
         LAMBDA fns, s:
            IF cur(toks, s).kind # "TK_EOF"
            THEN R(NullNode, error_at(s, s.pos, "extra token"))
            ELSE R(fns, s))

(***************************************************************************)
(* Calls into the parser.                                                  *)
(***************************************************************************)
IdleGen ==
    /\ node = NullNode
    /\ code = <<>>
    /\ pc = 1
    /\ stack = <<>>
    /\ entryStack = <<>>
    /\ rax = 0 /\ rdi = 0 /\ rdx = 0 /\ rbp = 0
    /\ flags = [lt |-> FALSE, eq |-> FALSE]
    /\ mem = <<>>

ParserState == [pos |-> current_token, locals |-> locals, heap |-> heap, err |-> err]

\* The process state after the call named done returned r.n and left state
\* r.st; a call that ended the process returns nothing.
Returned(r, done) ==
    /\ current_token' = r.st.pos
    /\ locals' = r.st.locals
    /\ heap' = r.st.heap
    /\ err' = r.st.err
    /\ ret' = IF Failed(r.st) THEN NullNode ELSE r.n
    /\ phase' = done

\* parse(tokens)
Parse ==
    /\ phase = "start"
    /\ Returned(Then(parse(tokens, ParserState),
                     LAMBDA fns, s: R([kind |-> "Function list", fns |-> fns], s)),
                "parse")
    /\ UNCHANGED <<tokens, lhs, rhs>>
    /\ UNCHANGED genVars

\* stmt() at the current token
CallStmt ==
    /\ phase = "start"
    /\ Returned(stmt(tokens, ParserState), "stmt")
    /\ UNCHANGED <<tokens, lhs, rhs>>
    /\ UNCHANGED genVars

\* relational() at the current token
CallRelational ==
    /\ phase = "start"
    /\ Returned(relational(tokens, ParserState), "relational")
    /\ UNCHANGED <<tokens, lhs, rhs>>
    /\ UNCHANGED genVars

\* equality() at the current token
CallEquality ==
    /\ phase = "start"
    /\ Returned(equality(tokens, ParserState), "equality")
    /\ UNCHANGED <<tokens, lhs, rhs>>
    /\ UNCHANGED genVars

\* new_add_node(lhs, rhs)
CallNewAddNode ==
    /\ phase = "start"
    /\ Returned(new_add_node(ParserState, lhs, rhs), "new_add_node")
    /\ UNCHANGED <<tokens, lhs, rhs>>
    /\ UNCHANGED genVars

\* new_sub_node(lhs, rhs)
CallNewSubNode ==
    /\ phase = "start"
    /\ Returned(new_sub_node(ParserState, lhs, rhs), "new_sub_node")
    /\ UNCHANGED <<tokens, lhs, rhs>>
    /\ UNCHANGED genVars

(***************************************************************************)
(* Whole programs handed to parse(): one or two function definitions built *)
(* from parameter lists, declaration lists and bodies.                     *)
(***************************************************************************)
KwInt == Rsv("int")
Semi == Rsv(";")

ParamLists ==
    { <<>>,
      <<KwInt, Id("a")>>,
      <<KwInt, Id("a"), Rsv(","), KwInt, Rsv("*"), Id("b")>>,
      <<KwInt, Id("a"), Rsv(","), KwInt, Id("b"), Rsv(","), KwInt, Id("c")>> }

DeclLists ==
    { <<>>,
      <<KwInt, Id("x"), Semi>>,
      <<KwInt, Id("x"), Semi, KwInt, Id("y"), Rsv("["), Nm(3), Rsv("]"), Semi>>,
      <<KwInt, Rsv("*"), Id("x"), Semi, KwInt, Id("a"), Semi>> }

Bodies ==
    { <<Rsv("return"), Nm(0), Semi>>,
      <<Rsv("return"), Id("a"), Semi>>,
      <<Rsv("return"), Id("x"), Semi>>,
      <<Id("z"), Semi, KwInt, Id("z"), Semi, Rsv("return"), Nm(0), Semi>>,
      <<KwInt, Id("z"), Rsv("="), Id("z"), Semi, Rsv("return"), Id("z"), Semi>> }

FuncToks(name, ps, ds, b) ==
    <<KwInt, Id(name), Rsv("(")>> \o ps \o <<Rsv(")"), Rsv("{")>> \o ds \o b \o <<Rsv("}")>>

FuncDefs(name) == {FuncToks(name, ps, ds, b) : ps \in ParamLists, ds \in DeclLists, b \in Bodies}

Programs ==
    {f \o <<Eof>> : f \in FuncDefs("main")}
    \cup {f \o g \o <<Eof>> : f \in FuncDefs("f"), g \in FuncDefs("main")}

InitParse ==
    /\ tokens \in Programs
    /\ current_token = 0
    /\ locals = 0
    /\ heap = <<>>
    /\ err = NoErr
    /\ ret = NullNode
    /\ lhs = NullNode
    /\ rhs = NullNode
    /\ phase = "start"
    /\ IdleGen

NextParse == Parse

SpecParse == InitParse /\ [][NextParse]_vars

(***************************************************************************)
(* Statements and expressions handed to stmt(), relational() and           *)
(* equality(), parsed inside a function whose locals are already declared. *)
(***************************************************************************)
EmptyState == [pos |-> 1, locals |-> 0, heap |-> <<>>, err |-> NoErr]

\* int a; int b; int c; int i; int *p;
DeclaredState ==
    new_lvar(new_lvar(new_lvar(new_lvar(new_lvar(EmptyState,
        "a", type_int), "b", type_int), "c", type_int), "i", type_int),
        "p", pointer_to(type_int))

RelOps == {"<", "<=", ">", ">="}
EqOps == {"==", "!="}
OperandToks == {Id("a"), Id("b"), Nm(1)}

RelChains ==
    {<<x, Rsv(o1), y, Semi>> : x \in OperandToks, y \in OperandToks, o1 \in RelOps}
    \cup {<<x, Rsv(o1), y, Rsv(o2), z, Semi>> :
            x \in OperandToks, y \in OperandToks, z \in OperandToks,
            o1 \in RelOps, o2 \in RelOps}
    \cup {<<Id("a"), Rsv(o1), Id("b"), Rsv("+"), Nm(1), Rsv(o2), Id("c"), Rsv("*"), Nm(2), Semi>> :
            o1 \in RelOps, o2 \in RelOps}

EqChains ==
    {<<Id("a"), Rsv(o1), Id("b"), Rsv(o2), Id("c"), Semi>> :
        o1 \in RelOps \cup EqOps, o2 \in EqOps}

ForInitExprs == {<<Id("i"), Rsv("="), Nm(0)>>, <<Id("i")>>}
ForInitDecls == {<<KwInt, Id("j"), Rsv("="), Nm(0)>>, <<KwInt, Id("j")>>}
ForConds == {<<Id("i"), Rsv("<"), Nm(3)>>, <<Id("i")>>}
ForIncs == {<<Id("i"), Rsv("="), Id("i"), Rsv("+"), Nm(1)>>, <<Id("i")>>}
ForBodies == {<<Id("a"), Semi>>, <<Rsv("{"), Rsv("}")>>, <<Rsv("return"), Id("i"), Semi>>}

ForStream(init, cond, inc, body) ==
    <<Rsv("for"), Rsv("(")>> \o init \o <<Semi>> \o cond \o <<Semi>> \o inc
        \o <<Rsv(")")>> \o body

ForStmts ==
    {ForStream(i, c, n, b) : i \in {<<>>} \cup ForInitExprs \cup ForInitDecls,
                             c \in {<<>>} \cup ForConds,
                             n \in {<<>>} \cup ForIncs,
                             b \in ForBodies}

OtherStmts ==
    { <<Rsv("return"), Id("a"), Rsv("+"), Nm(1), Semi>>,
      <<Rsv("if"), Rsv("("), Id("a"), Rsv(")"), Id("b"), Semi>>,
      <<Rsv("if"), Rsv("("), Id("a"), Rsv(")"), Id("b"), Semi, Rsv("else"), Id("c"), Semi>>,
      <<Rsv("while"), Rsv("("), Id("i"), Rsv(")"), Id("i"), Rsv("="), Id("i"), Rsv("-"),
        Nm(1), Semi>>,
      <<Rsv("{"), KwInt, Id("k"), Semi, Id("k"), Rsv("="), Rsv("sizeof"), Id("p"), Semi,
        Rsv("}")>>,
      <<Id("f"), Rsv("("), Id("a"), Rsv(","), Rsv("*"), Id("p"), Rsv(")"), Semi>>,
      <<Rsv("return"), Rsv("&"), Id("a"), Rsv("-"), Id("p"), Semi>> }

StmtStreams == {t \o <<Eof>> : t \in RelChains \cup EqChains \cup ForStmts \cup OtherStmts}

InitFn ==
    /\ tokens \in StmtStreams
    /\ current_token = 1
    /\ locals = DeclaredState.locals
    /\ heap = DeclaredState.heap
    /\ err = NoErr
    /\ ret = NullNode
    /\ lhs = NullNode
    /\ rhs = NullNode
    /\ phase = "start"
    /\ IdleGen

NextFn ==
    \/ CallStmt
    \/ CallRelational
    \/ CallEquality

SpecFn == InitFn /\ [][NextFn]_vars

(***************************************************************************)
(* Operands handed to new_add_node() and new_sub_node().                   *)
(***************************************************************************)
\* int x; int *p; int *q; int **pp; int a[3]; int *m[2];
ArithState ==
    new_lvar(new_lvar(new_lvar(new_lvar(new_lvar(new_lvar(EmptyState,
        "x", type_int), "p", pointer_to(type_int)), "q", pointer_to(type_int)),
        "pp", pointer_to(pointer_to(type_int))), "a", array_of(type_int, 3)),
        "m", array_of(pointer_to(type_int), 2))

Operands ==
    {new_var_node(v) : v \in 1..Len(ArithState.heap)}
    \cup {new_num_node(2),
          new_unary_node("ND_ADDR", new_var_node(1)),
          new_unary_node("ND_DEREF", new_var_node(4)),
          new_binary_node("ND_MUL", new_var_node(1), new_num_node(2))}

InitArith ==
    /\ tokens = <<Semi, Rsv("}"), Eof>>
    /\ current_token = 1
    /\ locals = ArithState.locals
    /\ heap = ArithState.heap
    /\ err = NoErr
    /\ ret = NullNode
    /\ lhs \in Operands
    /\ rhs \in Operands
    /\ phase = "start"
    /\ IdleGen

NextArith ==
    \/ CallNewAddNode
    \/ CallNewSubNode

SpecArith == InitArith /\ [][NextArith]_vars

(***************************************************************************)
(* Properties of the code generator.                                       *)
(***************************************************************************)
Top == stack[Len(stack)]

\* C division: the quotient q with a = q*b + r, |r| < |b|, r of the sign of a.
CDiv(a, b) ==
    CHOOSE q \in (-Abs(a))..Abs(a) :
        /\ Abs(a - q * b) < Abs(b)
        /\ (a - q * b = 0 \/ ((a - q * b < 0) = (a < 0)))

ApplyOp(k, L, Rv) ==
    CASE k = "ND_ADD" -> L + Rv
      [] k = "ND_SUB" -> L - Rv
      [] k = "ND_MUL" -> L * Rv
      [] k = "ND_DIV" -> IF Rv = 0 THEN 0 ELSE CDiv(L, Rv)
      [] k = "ND_EQ"  -> IF L = Rv THEN 1 ELSE 0
      [] k = "ND_NE"  -> IF L # Rv THEN 1 ELSE 0
      [] k = "ND_LET" -> IF L < Rv THEN 1 ELSE 0
      [] k = "ND_LEE" -> IF L <= Rv THEN 1 ELSE 0
      [] k = "ND_LAT" -> IF L > Rv THEN 1 ELSE 0
      [] k = "ND_LAE" -> IF L >= Rv THEN 1 ELSE 0

\* Reference interpreter: direct evaluation of the AST, left operand first,
\* over the frame m of a function whose frame base is base.
RECURSIVE RefEval(_, _, _)
RefEval(n, m, base) ==
    CASE n.kind = "ND_NUM" -> [ok |-> TRUE, v |-> n.val, m |-> m]
      [] n.kind = "ND_LVAR" -> [ok |-> TRUE, v |-> m[base - n.offset], m |-> m]
      [] n.kind = "ND_ASSIGN" ->
            IF n.lhs.kind # "ND_LVAR" THEN [ok |-> FALSE, v |-> 0, m |-> m]
            ELSE LET r == RefEval(n.rhs, m, base)
                 IN [ok |-> r.ok, v |-> r.v,
                     m |-> [r.m EXCEPT ![base - n.lhs.offset] = r.v]]
      [] OTHER ->
            LET l == RefEval(n.lhs, m, base)
                r == RefEval(n.rhs, l.m, base)
            IN [ok |-> l.ok /\ r.ok /\ (n.kind = "ND_DIV" => r.v # 0),
                v |-> ApplyOp(n.kind, l.v, r.v), m |-> r.m]

\* C2: while the code printed for an expression runs, the stack never gets
\* shallower than it was at entry (nor are the entries below touched), and
\* when the code has run the stack is exactly one value deeper.
C2_OneValuePushed ==
    /\ phase # "underflow"
    /\ Len(stack) >= Len(entryStack)
    /\ SubSeq(stack, 1, Len(entryStack)) = entryStack
    /\ phase = "done" => Len(stack) = Len(entryStack) + 1

C2_Witness ==
    /\ phase = "done"
    /\ node.kind = "ND_ASSIGN"
    /\ node.rhs.kind \in BinaryKinds
    /\ Len(entryStack) = MaxEntryDepth
    /\ Len(stack) = MaxEntryDepth + 1

\* C3: the code printed for a binary node leaves op(L, R) on top of the
\* stack, L the value of node->lhs and R the value of node->rhs evaluated
\* after it: sums, differences, products, C's signed quotient, and 1 or 0
\* for the six comparisons; for every node the value on top and the frame
\* are those of the reference interpreter.
C3_BinaryValue ==
    phase = "done" =>
        /\ RefEval(node, InitMem(rbp), rbp).ok
        /\ Top = RefEval(node, InitMem(rbp), rbp).v
        /\ mem = RefEval(node, InitMem(rbp), rbp).m
        /\ node.kind \in BinaryKinds =>
              LET L == RefEval(node.lhs, InitMem(rbp), rbp)
                  Rr == RefEval(node.rhs, L.m, rbp)
              IN Top = ApplyOp(node.kind, L.v, Rr.v)

C3_Witness ==
    /\ phase = "done"
    /\ node.kind = "ND_LAE"
    /\ node.lhs.kind = "ND_DIV"
    /\ node.lhs.lhs = NumNode(-7)
    /\ node.lhs.rhs = NumNode(2)
    /\ node.rhs = LvarNode(16)
    /\ Top = 1

(***************************************************************************)
(* Properties of new_add_node and new_sub_node.                            *)
(***************************************************************************)
LT == TypeOf(lhs, heap)
RT == TypeOf(rhs, heap)

\* n is the integer operand i multiplied by size.
IsScaled(n, i, size) ==
    /\ n.kind = "ND_MUL"
    /\ {n.lhs, n.rhs} = {i, new_num_node(size)}

\* The value of the tree n when its leaves l and r have the values vl and vr.
RECURSIVE EvalTree(_, _, _, _, _)
EvalTree(n, l, vl, r, vr) ==
    IF n = l THEN vl
    ELSE IF n = r THEN vr
    ELSE IF n.kind = "ND_NUM" THEN n.val
    ELSE ApplyOp(n.kind, EvalTree(n.lhs, l, vl, r, vr), EvalTree(n.rhs, l, vl, r, vr))

\* C4: for pointer/array + integer, integer + pointer/array and
\* pointer/array - integer the node built has the pointer/array operand
\* unscaled and the integer operand multiplied by the size of the base type.
C4_IntegerOperandScaled ==
    /\ (phase = "new_add_node" /\ HasBase(LT) /\ RT.kind = "TY_INT") =>
          /\ err = NoErr
          /\ ret.kind = "ND_ADD"
          /\ ret.lhs = lhs
          /\ IsScaled(ret.rhs, rhs, LT.base.size)
    /\ (phase = "new_add_node" /\ LT.kind = "TY_INT" /\ HasBase(RT)) =>
          /\ err = NoErr
          /\ ret.kind = "ND_ADD"
          /\ \/ ret.rhs = rhs /\ IsScaled(ret.lhs, lhs, RT.base.size)
             \/ ret.lhs = rhs /\ IsScaled(ret.rhs, lhs, RT.base.size)
    /\ (phase = "new_sub_node" /\ HasBase(LT) /\ RT.kind = "TY_INT") =>
          /\ err = NoErr
          /\ ret.kind = "ND_SUB"
          /\ ret.lhs = lhs
          /\ IsScaled(ret.rhs, rhs, LT.base.size)

\* C5: pointer - pointer of the same base type is (lhs - rhs) divided by
\* the size of the pointee; two int* values 12 bytes apart give 3.
C5_ElementDistance ==
    (phase = "new_sub_node" /\ LT.kind = "TY_PTR" /\ RT.kind = "TY_PTR" /\ LT.base = RT.base) =>
        /\ err = NoErr
        /\ ret = new_binary_node("ND_DIV", new_binary_node("ND_SUB", lhs, rhs),
                                 new_num_node(LT.base.size))
        /\ (LT.base = type_int /\ lhs # rhs) =>
              \A vr \in {4096, 4104} : EvalTree(ret, lhs, vr + 12, rhs, vr) = 3

\* C6: two operands that both have a base type end new_add_node with the
\* fatal error "invalid operands" and no node; two integers give the plain
\* ND_ADD node and no error.
C6_InvalidOperands ==
    phase = "new_add_node" =>
        /\ (HasBase(LT) /\ HasBase(RT)) =>
              /\ err.kind = "fatal"
              /\ err.msg = "invalid operands"
              /\ ret = NullNode
        /\ (LT.kind = "TY_INT" /\ RT.kind = "TY_INT") =>
              /\ err = NoErr
              /\ ret = new_binary_node("ND_ADD", lhs, rhs)

C6_Witness ==
    /\ phase = "new_add_node"
    /\ LT.kind = "TY_PTR"
    /\ RT.kind = "TY_ARRAY"
    /\ err.kind = "fatal"
    /\ ret = NullNode

(***************************************************************************)
(* Properties of relational() and stmt().                                  *)
(***************************************************************************)
RelKind(op) ==
    CASE op = "<" -> "ND_LET"
      [] op = ">" -> "ND_LAT"
      [] op = "<=" -> "ND_LEE"
      [] op = ">=" -> "ND_LAE"

\* The node of a single operand token, given the declared locals.
OperandNode(tok) ==
    IF tok.kind = "TK_NUM" THEN new_num_node(tok.val)
    ELSE new_var_node(find_var(DeclaredState, tok))

\* C8: a op1 b op2 c is parsed by relational() as ((a op1 b) op2 c), the
\* right operands being additive expressions.
C8_RelationalLeftAssoc ==
    /\ (phase = "relational" /\ Len(tokens) = 7
          /\ tokens[2].str \in RelOps /\ tokens[4].str \in RelOps) =>
          /\ err = NoErr
          /\ ret = new_binary_node(RelKind(tokens[4].str),
                       new_binary_node(RelKind(tokens[2].str),
                                       OperandNode(tokens[1]), OperandNode(tokens[3])),
                       OperandNode(tokens[5]))
    /\ (phase = "relational" /\ Len(tokens) = 11) =>
          /\ err = NoErr
          /\ ret = new_binary_node(RelKind(tokens[6].str),
                       new_binary_node(RelKind(tokens[2].str),
                           OperandNode(tokens[1]),
                           new_binary_node("ND_ADD", OperandNode(tokens[3]),
                                           OperandNode(tokens[5]))),
                       new_binary_node("ND_MUL", OperandNode(tokens[7]),
                                       OperandNode(tokens[9])))

\* C9: "for" "(" expr? ";" expr? ";" expr? ")" stmt is accepted by stmt()
\* whichever clauses are present, the init clause being a plain expression,
\* and the ND_FOR node has init, cond and inc set exactly for the clauses
\* present, and its body set.
C9_ForClausesOptional ==
    \A i \in {<<>>} \cup ForInitExprs, c \in {<<>>} \cup ForConds,
       n \in {<<>>} \cup ForIncs, b \in ForBodies :
        (phase = "stmt" /\ tokens = ForStream(i, c, n, b) \o <<Eof>>) =>
            /\ err = NoErr
            /\ ret.kind = "ND_FOR"
            /\ (ret.init = NullNode) <=> (i = <<>>)
            /\ (ret.cond = NullNode) <=> (c = <<>>)
            /\ (ret.inc = NullNode) <=> (n = <<>>)
            /\ ret.then # NullNode
            /\ tokens[current_token] = Eof

(***************************************************************************)
(* Properties of parse(): what the token list says, read off the tokens    *)
(* alone, against what the parser built.                                   *)
(***************************************************************************)
\* Token k ends a run "int" "*"*: the next identifier is being declared.
RECURSIVE AfterInt(_, _)
AfterInt(toks, k) ==
    /\ k >= 1
    /\ \/ toks[k] = KwInt
       \/ toks[k] = Rsv("*") /\ AfterInt(toks, k - 1)

IsIdent(toks, j) == j \in 1..Len(toks) /\ toks[j].kind = "TK_IDENT"
IsFuncName(toks, j) ==
    IsIdent(toks, j) /\ j >= 2 /\ toks[j - 1] = KwInt /\ toks[j + 1] = Rsv("(")
IsDeclIdent(toks, j) == IsIdent(toks, j) /\ AfterInt(toks, j - 1) /\ ~IsFuncName(toks, j)
IsVarUse(toks, j) == IsIdent(toks, j) /\ ~AfterInt(toks, j - 1) /\ toks[j + 1] # Rsv("(")

SetMax(S) == CHOOSE x \in S : \A y \in S : y <= x
SetMin(S) == CHOOSE x \in S : \A y \in S : x <= y

FuncNames(toks) == {j \in 1..Len(toks) : IsFuncName(toks, j)}
\* The name of the function definition that token i is in.
FuncOf(toks, i) == SetMax({j \in FuncNames(toks) : j <= i})

\* Uses of a variable that no parameter or declaration of the same function
\* has introduced before the use.
UndeclaredUses(toks) ==
    {i \in 1..Len(toks) :
        /\ IsVarUse(toks, i)
        /\ ~\E j \in (FuncOf(toks, i) + 1)..(i - 1) :
                IsDeclIdent(toks, j) /\ toks[j].str = toks[i].str}

\* The Var list starting at v, following the next links.
RECURSIVE Walk(_, _)
Walk(hp, v) == IF v = 0 THEN <<>> ELSE <<v>> \o Walk(hp, hp[v].next)

Reverse(q) == [k \in 1..Len(q) |-> q[Len(q) + 1 - k]]
Range(q) == {q[k] : k \in 1..Len(q)}

RECURSIVE SortedSeq(_)
SortedSeq(S) == IF S = {} THEN <<>> ELSE <<SetMin(S)>> \o SortedSeq(S \ {SetMin(S)})

\* The names of the parameters of the function named at token j, in the
\* order they are declared.
ParamNames(toks, j) ==
    LET close == SetMin({k \in (j + 1)..Len(toks) : toks[k] = Rsv(")")})
        ps == SortedSeq({k \in (j + 1)..close : IsDeclIdent(toks, k)})
    IN [k \in 1..Len(ps) |-> toks[ps[k]].str]

NamesOf(hp, w) == [k \in 1..Len(w) |-> hp[w[k]].name]

RECURSIVE SumSizes(_, _, _)
SumSizes(hp, w, k) == IF k = 0 THEN 0 ELSE hp[w[k]].type.size + SumSizes(hp, w, k - 1)

RoundUp16(n) == CHOOSE m \in n..(n + 15) : m % 16 = 0

Parsed == phase = "parse" /\ err = NoErr

\* C1: after parse(), in every function of the list each local of the
\* function's own list has the offset 32 + the sizes of the locals up to and
\* including it, and stack_size is 32 + the size of all of them, rounded up
\* to a multiple of 16.
C1_EveryFunctionLaidOut ==
    Parsed =>
        \A i \in 1..Len(ret.fns) :
            LET w == Walk(heap, ret.fns[i].locals) IN
            /\ \A k \in 1..Len(w) : heap[w[k]].offset = 32 + SumSizes(heap, w, k)
            /\ ret.fns[i].stack_size = RoundUp16(32 + SumSizes(heap, w, Len(w)))

\* C7: when the tokens use a variable that the same function has not
\* declared before the use, parse() ends with a fatal error at the first
\* such identifier and returns no function list.
C7_UndeclaredVariableFatal ==
    (phase = "parse" /\ UndeclaredUses(tokens) # {}) =>
        /\ err.kind = "fatal"
        /\ err.msg = "undefined variable"
        /\ err.loc = SetMin(UndeclaredUses(tokens))
        /\ ret = NullNode

\* The variable is declared in the previous function only.
C7_Witness ==
    /\ phase = "parse"
    /\ err.kind = "fatal"
    /\ err.msg = "undefined variable"
    /\ \E j \in 1..(FuncOf(tokens, err.loc) - 1) :
          IsDeclIdent(tokens, j) /\ tokens[j].str = tokens[err.loc].str

\* C10 as stated: fn->params lists exactly the parameters in the order of
\* declaration, and every one of them is in fn->locals.
C10_ParamsInDeclarationOrder ==
    Parsed =>
        \A i \in 1..Len(ret.fns) :
            /\ NamesOf(heap, Walk(heap, ret.fns[i].params))
                  = ParamNames(tokens, SortedSeq(FuncNames(tokens))[i])
            /\ Range(Walk(heap, ret.fns[i].params)) \subseteq Range(Walk(heap, ret.fns[i].locals))

\* C10 amended: fn->params lists exactly the parameters, the last declared
\* first, and every one of them is in fn->locals.
C10_ParamsInReverseOrder ==
    Parsed =>
        \A i \in 1..Len(ret.fns) :
            /\ NamesOf(heap, Walk(heap, ret.fns[i].params))
                  = Reverse(ParamNames(tokens, SortedSeq(FuncNames(tokens))[i]))
            /\ Range(Walk(heap, ret.fns[i].params)) \subseteq Range(Walk(heap, ret.fns[i].locals))

C10_Witness ==
    /\ Parsed
    /\ \E i \in 1..Len(ret.fns) :
          /\ Len(Walk(heap, ret.fns[i].params)) = 3
          /\ Len(Walk(heap, ret.fns[i].locals)) = 5

====
